---- MODULE Spec2Model ----
(***************************************************************************)
(* Model of src/main.py: the fetch -> validate -> store -> query pipeline. *)
(* Text values are sequences of one-character strings, so that LENGTH and  *)
(* the quote doubling of sanitize_string are computed, not assumed.        *)
(***************************************************************************)
EXTENDS Integers, Sequences, FiniteSets, TLC

\* ---------------------------------------------------------------- bounds
MaxPosts == 2
MaxUsers == 2
MaxRuns == 2

\* ------------------------------------------------- raw JSON field values
IntV(n) == [t |-> "int", v |-> n]
StrV(s) == [t |-> "str", v |-> s]
Absent == [t |-> "absent", v |-> <<>>]

\* ------------------------------------------------ Pydantic models (schemas)
Post == [userId |-> "int", id |-> "int", title |-> "str", body |-> "str"]
User == [id |-> "int", name |-> "str", username |-> "str", email |-> "str"]

\* ------------------------------------ what the two endpoints may serve
RawPostPool ==
  { [userId |-> IntV(1), id |-> IntV(1), title |-> StrV(<<"t">>), body |-> StrV(<<"a", "b">>)],
    [userId |-> StrV(<<"2">>), id |-> IntV(2), title |-> StrV(<<"'">>), body |-> StrV(<<"a", "'", "b">>)],
    [userId |-> IntV(2), id |-> IntV(3), title |-> StrV(<<>>), body |-> Absent] }

RawUserPool ==
  { [id |-> IntV(1), name |-> StrV(<<"A">>), username |-> StrV(<<"a", "'", "b">>), email |-> StrV(<<>>)],
    [id |-> IntV(2), name |-> StrV(<<"A">>), username |-> StrV(<<"b">>), email |-> StrV(<<"'">>)],
    [id |-> IntV(2), name |-> StrV(<<"O", "'", "N">>), username |-> StrV(<<"c">>), email |-> StrV(<<"e">>)],
    [id |-> StrV(<<"x">>), name |-> StrV(<<"C">>), username |-> StrV(<<"c">>), email |-> StrV(<<"e">>)] }

SeqsUpTo(S, n) == UNION { [1..k -> S] : k \in 0..n }

TieBreaks == {"first", "last"}

\* ------------------------------------------------------------ validation
DigitVal == [c \in {"0", "1", "2", "3", "4", "5", "6", "7", "8", "9"} |->
              CASE c = "0" -> 0 [] c = "1" -> 1 [] c = "2" -> 2 [] c = "3" -> 3
                [] c = "4" -> 4 [] c = "5" -> 5 [] c = "6" -> 6 [] c = "7" -> 7
                [] c = "8" -> 8 [] c = "9" -> 9]

IsDigits(s) == Len(s) > 0 /\ \A k \in 1..Len(s) : s[k] \in DOMAIN DigitVal

RECURSIVE ParseInt(_)
ParseInt(s) ==
  IF s = <<>> THEN 0
  ELSE 10 * ParseInt(SubSeq(s, 1, Len(s) - 1)) + DigitVal[s[Len(s)]]

\* a field value the model's declared type accepts (lax mode: digit strings
\* are accepted for int, nothing but a string for str)
FieldOk(x, ty) ==
  IF ty = "int" THEN x.t = "int" \/ (x.t = "str" /\ IsDigits(x.v))
  ELSE x.t = "str"

FieldVal(x, ty) ==
  IF ty = "int" THEN (IF x.t = "int" THEN x.v ELSE ParseInt(x.v)) ELSE x.v

ItemOk(item, model) == \A f \in DOMAIN model : FieldOk(item[f], model[f])

model_dump(item, model) == [f \in DOMAIN model |-> FieldVal(item[f], model[f])]

Unset == [ok |-> FALSE, val |-> <<>>]
Value(x) == [ok |-> TRUE, val |-> x]

validate_data_partial(data, model) ==
  Value(LET good == SelectSeq(data, LAMBDA item : ItemOk(item, model))
        IN [k \in 1..Len(good) |-> model_dump(good[k], model)])

validate_data(data, model) ==
  IF \A k \in 1..Len(data) : ItemOk(data[k], model)
  THEN Value([k \in 1..Len(data) |-> model_dump(data[k], model)])
  ELSE Unset

\* ---------------------------------------------------------------- storage
RECURSIVE sanitize_string(_)
sanitize_string(value) ==
  IF value = <<>> THEN <<>>
  ELSE (IF Head(value) = "'" THEN <<"'", "'">> ELSE <<Head(value)>>)
       \o sanitize_string(Tail(value))

NoTable == [exists |-> FALSE, rows |-> <<>>]
EmptyStore == [posts |-> NoTable, users |-> NoTable]

CreateIfNotExists(store, name) ==
  [store EXCEPT ![name] = [exists |-> TRUE, rows |-> store[name].rows]]

CreateOrReplace(store, name) ==
  [store EXCEPT ![name] = [exists |-> TRUE, rows |-> <<>>]]

InsertInto(store, name, row) ==
  [store EXCEPT ![name] = [exists |-> TRUE, rows |-> Append(store[name].rows, row)]]

PostRow(post) ==
  [userId |-> post.userId, id |-> post.id,
   title |-> sanitize_string(post.title), body |-> sanitize_string(post.body)]

UserRow(user) ==
  [id |-> user.id, name |-> sanitize_string(user.name),
   username |-> sanitize_string(user.username), email |-> sanitize_string(user.email)]

\* ---------------------------------------------------------------- queries
JoinRow(p, u) ==
  [userId |-> p.userId, post_id |-> p.id, body |-> p.body,
   user_id |-> u.id, name |-> u.name]

CrossProduct(P, U) ==
  [k \in 1..(Len(P) * Len(U)) |->
     JoinRow(P[((k - 1) \div Len(U)) + 1], U[((k - 1) % Len(U)) + 1])]

JoinWithoutOn(P, U) == CrossProduct(P, U)

\* FROM posts JOIN users ON posts.userId = users.id
Join(P, U) == SelectSeq(CrossProduct(P, U), LAMBDA r : r.userId = r.user_id)

RECURSIVE Distinct(_)
Distinct(s) ==
  IF s = <<>> THEN <<>>
  ELSE LET d == Distinct(SubSeq(s, 1, Len(s) - 1))
           x == s[Len(s)]
       IN IF \E k \in 1..Len(d) : d[k] = x THEN d ELSE Append(d, x)

\* GROUP BY users.name: the groups, in order of first appearance
GroupNames(J) == Distinct([k \in 1..Len(J) |-> J[k].name])

RECURSIVE SumBodyLength(_, _)
SumBodyLength(J, name) ==
  IF J = <<>> THEN 0
  ELSE (IF Head(J).name = name THEN Len(Head(J).body) ELSE 0)
       + SumBodyLength(Tail(J), name)

\* ORDER BY key DESC; the engine's order among equal keys is unspecified but
\* fixed: t says whether the earlier or the later row comes first
RECURSIVE OrderIdx(_, _, _)
OrderIdx(S, keys, t) ==
  IF S = {} THEN <<>>
  ELSE LET i == CHOOSE a \in S : \A b \in S :
                  \/ keys[a] > keys[b]
                  \/ keys[a] = keys[b] /\ (IF t = "first" THEN a <= b ELSE a >= b)
       IN <<i>> \o OrderIdx(S \ {i}, keys, t)

OrderByDesc(rows, keys, t) ==
  LET o == OrderIdx(1..Len(rows), keys, t)
  IN [k \in 1..Len(rows) |-> rows[o[k]]]

Limit(rows, n) == SubSeq(rows, 1, IF Len(rows) < n THEN Len(rows) ELSE n)

query1(store, t) ==
  LET J == Join(store.posts.rows, store.users.rows)
      g == GroupNames(J)
      rows == [k \in 1..Len(g) |->
                 [name |-> g[k],
                  post_count |-> Cardinality({j \in 1..Len(J) : J[j].name = g[k]})]]
  IN OrderByDesc(rows, [k \in 1..Len(rows) |-> rows[k].post_count], t)

query2_unordered(store, t) ==
  LET J == Join(store.posts.rows, store.users.rows)
      rows == [k \in 1..Len(J) |-> [name |-> J[k].name, body_length |-> Len(J[k].body)]]
  IN Limit(rows, 1)

query2(store, t) ==
  LET J == Join(store.posts.rows, store.users.rows)
      rows == [k \in 1..Len(J) |-> [name |-> J[k].name, body_length |-> Len(J[k].body)]]
  IN Limit(OrderByDesc(rows, [k \in 1..Len(rows) |-> rows[k].body_length], t), 1)

query3(store, t) ==
  LET J == Join(store.posts.rows, store.users.rows)
      g == GroupNames(J)
      rows == [k \in 1..Len(g) |->
                 [user_name |-> g[k], total_content_length |-> SumBodyLength(J, g[k])]]
  IN Limit(OrderByDesc(rows, [k \in 1..Len(rows) |-> rows[k].total_content_length], t), 3)

\* ------------------------------------------------------------------- main
main_first == "fetch_posts"

main_next_query_first(stage) ==
  CASE stage = "fetch_posts" -> "fetch_users"
    [] stage = "fetch_users" -> "validate_posts"
    [] stage = "validate_posts" -> "validate_users"
    [] stage = "validate_users" -> "query1"
    [] stage = "query1" -> "query2"
    [] stage = "query2" -> "query3"
    [] stage = "query3" -> "store"
    [] stage = "store" -> "idle"

main_next(stage) ==
  CASE stage = "fetch_posts" -> "fetch_users"
    [] stage = "fetch_users" -> "validate_posts"
    [] stage = "validate_posts" -> "validate_users"
    [] stage = "validate_users" -> "store"
    [] stage = "store" -> "query1"
    [] stage = "query1" -> "query2"
    [] stage = "query2" -> "query3"
    [] stage = "query3" -> "idle"

VARIABLES remotePosts, remoteUsers, tie, db, pc, err, run,
          posts_data, users_data, posts, users, idx,
          resA, resB, resC, log, db0, prev

vars == <<remotePosts, remoteUsers, tie, db, pc, err, run,
          posts_data, users_data, posts, users, idx,
          resA, resB, resC, log, db0, prev>>

env == <<remotePosts, remoteUsers, tie>>
locals == <<posts_data, users_data, posts, users>>
results == <<resA, resB, resC>>

NoPrev == [some |-> FALSE, db |-> EmptyStore, A |-> <<>>, B |-> <<>>, C |-> <<>>]

Init ==
  /\ remotePosts \in SeqsUpTo(RawPostPool, MaxPosts)
  /\ remoteUsers \in SeqsUpTo(RawUserPool, MaxUsers)
  /\ tie \in TieBreaks
  /\ db = EmptyStore
  /\ pc = "idle"
  /\ err = "none"
  /\ run = 0
  /\ posts_data = Unset /\ users_data = Unset
  /\ posts = Unset /\ users = Unset
  /\ idx = 0
  /\ resA = <<>> /\ resB = <<>> /\ resC = <<>>
  /\ log = <<>>
  /\ db0 = EmptyStore
  /\ prev = NoPrev

AllStages == <<"fetch_posts", "fetch_users", "validate_posts", "validate_users",
               "store", "query1", "query2", "query3">>

Completed == pc = "idle" /\ log = AllStages

\* the process is started (again) on the same store file
Main ==
  /\ pc = "idle" /\ run < MaxRuns
  /\ run' = run + 1
  /\ pc' = main_first
  /\ err' = "none"
  /\ posts_data' = Unset /\ users_data' = Unset
  /\ posts' = Unset /\ users' = Unset
  /\ idx' = 0
  /\ resA' = <<>> /\ resB' = <<>> /\ resC' = <<>>
  /\ log' = <<>>
  /\ db0' = db
  /\ prev' = IF Completed
             THEN [some |-> TRUE, db |-> db, A |-> resA, B |-> resB, C |-> resC]
             ELSE prev
  /\ UNCHANGED <<env, db>>

Raise(e) ==
  /\ err' = e
  /\ pc' = "idle"

FetchPosts ==
  /\ pc = "fetch_posts"
  /\ \/ /\ posts_data' = Value(remotePosts)
        /\ log' = Append(log, "fetch_posts")
        /\ pc' = main_next("fetch_posts")
        /\ UNCHANGED err
     \/ /\ Raise("FetchError")
        /\ UNCHANGED <<posts_data, log>>
  /\ UNCHANGED <<env, db, run, users_data, posts, users, idx, results, db0, prev>>

FetchUsers ==
  /\ pc = "fetch_users"
  /\ \/ /\ users_data' = Value(remoteUsers)
        /\ log' = Append(log, "fetch_users")
        /\ pc' = main_next("fetch_users")
        /\ UNCHANGED err
     \/ /\ Raise("FetchError")
        /\ UNCHANGED <<users_data, log>>
  /\ UNCHANGED <<env, db, run, posts_data, posts, users, idx, results, db0, prev>>

ValidatePosts ==
  /\ pc = "validate_posts"
  /\ LET r == validate_data(posts_data.val, Post)
     IN IF r.ok
        THEN /\ posts' = r
             /\ log' = Append(log, "validate_posts")
             /\ pc' = main_next("validate_posts")
             /\ UNCHANGED err
        ELSE /\ Raise("ValueError")
             /\ UNCHANGED <<posts, log>>
  /\ UNCHANGED <<env, db, run, posts_data, users_data, users, idx, results, db0, prev>>

ValidateUsers ==
  /\ pc = "validate_users"
  /\ LET r == validate_data(users_data.val, User)
     IN IF r.ok
        THEN /\ users' = r
             /\ log' = Append(log, "validate_users")
             /\ pc' = main_next("validate_users")
             /\ UNCHANGED err
        ELSE /\ Raise("ValueError")
             /\ UNCHANGED <<users, log>>
  /\ UNCHANGED <<env, db, run, posts_data, users_data, posts, idx, results, db0, prev>>

\* store_in_duckdb: connect, CREATE OR REPLACE TABLE posts
CreatePosts ==
  /\ pc = "store"
  /\ db' = CreateOrReplace(db, "posts")
  /\ idx' = 1
  /\ pc' = "insert_posts"
  /\ UNCHANGED <<env, err, run, locals, results, log, db0, prev>>

\* one INSERT INTO posts, committed on its own; the write may fail
InsertPost ==
  /\ pc = "insert_posts" /\ idx <= Len(posts.val)
  /\ \/ /\ db' = InsertInto(db, "posts", PostRow(posts.val[idx]))
        /\ idx' = idx + 1
        /\ UNCHANGED <<pc, err>>
     \/ /\ Raise("StorageError")
        /\ UNCHANGED <<db, idx>>
  /\ UNCHANGED <<env, run, locals, results, log, db0, prev>>

CreateUsers ==
  /\ pc = "insert_posts" /\ idx > Len(posts.val)
  /\ db' = CreateOrReplace(db, "users")
  /\ idx' = 1
  /\ pc' = "insert_users"
  /\ UNCHANGED <<env, err, run, locals, results, log, db0, prev>>

InsertUser ==
  /\ pc = "insert_users" /\ idx <= Len(users.val)
  /\ \/ /\ db' = InsertInto(db, "users", UserRow(users.val[idx]))
        /\ idx' = idx + 1
        /\ UNCHANGED <<pc, err>>
     \/ /\ Raise("StorageError")
        /\ UNCHANGED <<db, idx>>
  /\ UNCHANGED <<env, run, locals, results, log, db0, prev>>

\* conn.close(): store_in_duckdb returns
CloseStore ==
  /\ pc = "insert_users" /\ idx > Len(users.val)
  /\ log' = Append(log, "store")
  /\ pc' = main_next("store")
  /\ UNCHANGED <<env, db, err, run, locals, idx, results, db0, prev>>

TablesExist == db.posts.exists /\ db.users.exists

Query1 ==
  /\ pc = "query1"
  /\ IF TablesExist
     THEN /\ resA' = query1(db, tie)
          /\ log' = Append(log, "query1")
          /\ pc' = main_next("query1")
          /\ UNCHANGED err
     ELSE /\ Raise("StorageError")
          /\ UNCHANGED <<resA, log>>
  /\ UNCHANGED <<env, db, run, locals, idx, resB, resC, db0, prev>>

Query2 ==
  /\ pc = "query2"
  /\ resB' = query2(db, tie)
  /\ log' = Append(log, "query2")
  /\ pc' = main_next("query2")
  /\ UNCHANGED <<env, db, err, run, locals, idx, resA, resC, db0, prev>>

Query3 ==
  /\ pc = "query3"
  /\ resC' = query3(db, tie)
  /\ log' = Append(log, "query3")
  /\ pc' = main_next("query3")
  /\ UNCHANGED <<env, db, err, run, locals, idx, resA, resB, db0, prev>>

Next ==
  \/ Main
  \/ FetchPosts
  \/ FetchUsers
  \/ ValidatePosts
  \/ ValidateUsers
  \/ CreatePosts
  \/ InsertPost
  \/ CreateUsers
  \/ InsertUser
  \/ CloseStore
  \/ Query1
  \/ Query2
  \/ Query3

Spec == Init /\ [][Next]_vars

TypeOK ==
  /\ pc \in {"idle", "fetch_posts", "fetch_users", "validate_posts", "validate_users",
             "store", "insert_posts", "insert_users", "query1", "query2", "query3"}
  /\ err \in {"none", "FetchError", "ValueError", "StorageError"}
  /\ run \in 0..MaxRuns

\* ======================================================= claim formulas
Ran(stage) == \E k \in 1..Len(log) : log[k] = stage

posts_table == db.posts.rows
users_table == db.users.rows

Matches(p, u) == p.userId = u.id
Orphan(p) == \A j \in 1..Len(users_table) : ~Matches(p, users_table[j])

RECURSIVE SumOf(_)
SumOf(s) == IF s = <<>> THEN 0 ELSE Head(s) + SumOf(Tail(s))

\* posts of the users called name, one for each (post, user) pair of the join
MatchedCount(name) ==
  SumOf([i \in 1..Len(posts_table) |->
           Cardinality({j \in 1..Len(users_table) : Matches(posts_table[i], users_table[j]) /\ users_table[j].name = name})])

MatchedLength(name) ==
  SumOf([i \in 1..Len(posts_table) |->
           Len(posts_table[i].body)
           * Cardinality({j \in 1..Len(users_table) : Matches(posts_table[i], users_table[j]) /\ users_table[j].name = name})])

PostsOf(u) == {i \in 1..Len(posts_table) : Matches(posts_table[i], u)}
LengthOf(u) == SumOf([i \in 1..Len(posts_table) |-> IF Matches(posts_table[i], u) THEN Len(posts_table[i].body) ELSE 0])

NonIncreasing(keys) == \A k \in 1..(Len(keys) - 1) : keys[k] >= keys[k + 1]

StoredPosts == [k \in 1..Len(posts.val) |-> PostRow(posts.val[k])]
StoredUsers == [k \in 1..Len(users.val) |-> UserRow(users.val[k])]

\* C1: every text field read back from the posts and users tables after
\* store_in_duckdb has loaded them equals the string that was given.
C1_RoundTrip ==
  Ran("store") =>
    /\ \A k \in 1..Len(posts.val) :
         /\ posts_table[k].title = posts.val[k].title
         /\ posts_table[k].body = posts.val[k].body
    /\ \A k \in 1..Len(users.val) :
         /\ users_table[k].name = users.val[k].name
         /\ users_table[k].username = users.val[k].username
         /\ users_table[k].email = users.val[k].email

TableComplete(name) ==
  IF name = "posts"
  THEN posts.ok /\ db.posts.exists /\ Len(db.posts.rows) = Len(posts.val)
  ELSE users.ok /\ db.users.exists /\ Len(db.users.rows) = Len(users.val)

\* C2: whenever no load is in progress (a reader can open the file), each
\* table either holds all records of the run's input or is exactly as it was
\* before the run; a write failure leaves no partly loaded table.
C2_TransactionalPerTable ==
  (pc = "idle" /\ run > 0) =>
    \A name \in {"posts", "users"} : db[name] = db0[name] \/ TableComplete(name)

BadPosts == posts_data.ok /\ \E k \in 1..Len(posts_data.val) : ~ItemOk(posts_data.val[k], Post)
BadUsers == users_data.ok /\ \E k \in 1..Len(users_data.val) : ~ItemOk(users_data.val[k], User)

\* C3: if a fetch fails or a fetched collection holds a record that fails
\* validation, the run persists nothing: no validated list is produced for
\* that collection, store_in_duckdb is not entered, the store file is as it
\* was when the run started, and no query runs.
C3_AbortPersistsNothing ==
  /\ BadPosts => posts = Unset /\ users = Unset
  /\ BadUsers => users = Unset
  /\ err = "FetchError" => posts = Unset /\ users = Unset
  /\ (BadPosts \/ BadUsers \/ err \in {"FetchError", "ValueError"}) =>
       /\ db = db0
       /\ pc \in {"idle", "fetch_posts", "fetch_users", "validate_posts", "validate_users"}
       /\ ~Ran("store") /\ ~Ran("query1") /\ ~Ran("query2") /\ ~Ran("query3")
       /\ resA = <<>> /\ resB = <<>> /\ resC = <<>>

C3_Witness ==
  /\ pc = "idle" /\ err = "ValueError"
  /\ Len(posts_data.val) = 2
  /\ ItemOk(posts_data.val[1], Post) /\ ~ItemOk(posts_data.val[2], Post)
  /\ Len(users_data.val) > 0

WithoutOrphans ==
  [db EXCEPT !.posts.rows = SelectSeq(db.posts.rows, LAMBDA p : ~Orphan(p))]

\* C4: a post whose userId is the id of no row of users is in no query
\* result: each result is the one the query gives with those posts removed,
\* Query A counts and Query C sums only (post, user) pairs with equal ids, and
\* the row of Query B is such a pair.
C4_JoinExclusion ==
  /\ Ran("query1") =>
       /\ resA = query1(WithoutOrphans, tie)
       /\ \A k \in 1..Len(resA) : resA[k].post_count = MatchedCount(resA[k].name)
  /\ Ran("query2") =>
       /\ resB = query2(WithoutOrphans, tie)
       /\ \A k \in 1..Len(resB) :
            \E i \in 1..Len(posts_table), j \in 1..Len(users_table) :
              /\ Matches(posts_table[i], users_table[j])
              /\ resB[k].name = users_table[j].name
              /\ resB[k].body_length = Len(posts_table[i].body)
  /\ Ran("query3") =>
       /\ resC = query3(WithoutOrphans, tie)
       /\ \A k \in 1..Len(resC) :
            resC[k].total_content_length = MatchedLength(resC[k].user_name)

C4_Witness ==
  /\ Ran("query3")
  /\ Len(resB) = 1 /\ Len(resA) > 0 /\ Len(resC) > 0
  /\ \E i \in 1..Len(posts_table) : Orphan(posts_table[i]) /\ Len(posts_table[i].body) > resB[1].body_length

\* C5: after every completed run the tables hold exactly one row per input
\* record, whatever they held before, and a completed run on the same data
\* leaves the same tables and gives the same query results as the completed
\* run before it.
C5_FullRefresh ==
  Completed =>
    /\ db.posts.exists /\ db.users.exists
    /\ Len(posts_table) = Len(posts.val) /\ Len(users_table) = Len(users.val)
    /\ posts_table = StoredPosts /\ users_table = StoredUsers
    /\ prev.some =>
         /\ db = prev.db
         /\ resA = prev.A /\ resB = prev.B /\ resC = prev.C

C5_Witness ==
  /\ Completed /\ prev.some /\ run = 2
  /\ Len(posts_table) = 2 /\ Len(users_table) > 0 /\ Len(resA) > 0

UniqueUserIds ==
  \A j \in 1..Len(users_table), k \in 1..Len(users_table) :
    users_table[j].id = users_table[k].id => j = k

\* C6: Query A has, for every user with at least one post, exactly one row
\* with the user's name and the number of posts whose userId is the user's
\* id, no row for a user without posts, in non-increasing order of count.
\* Stated for users tables of pairwise distinct ids, the case the data model
\* declares, so that a violation is one of the grouping and not of C10.
C6_PostsPerUser ==
  (Ran("query1") /\ UniqueUserIds) =>
    /\ \A j \in 1..Len(users_table) :
         LET rowsOf == {k \in 1..Len(resA) : resA[k].name = users_table[j].name}
         IN IF PostsOf(users_table[j]) # {}
            THEN /\ Cardinality(rowsOf) = 1
                 /\ \A k \in rowsOf : resA[k].post_count = Cardinality(PostsOf(users_table[j]))
            ELSE rowsOf = {}
    /\ NonIncreasing([k \in 1..Len(resA) |-> resA[k].post_count])

UsersWithPosts == {users_table[j].id : j \in {j \in 1..Len(users_table) : PostsOf(users_table[j]) # {}}}

\* C7: Query C has min(3, k) rows, k the number of distinct users with at
\* least one post; each row is a user with the summed body length of that
\* user's posts, in non-increasing order, no omitted user having a larger sum.
\* Stated, as C6, for users tables of pairwise distinct ids.
C7_TopThree ==
  (Ran("query3") /\ UniqueUserIds) =>
    /\ Len(resC) = (IF Cardinality(UsersWithPosts) < 3 THEN Cardinality(UsersWithPosts) ELSE 3)
    /\ \A k \in 1..Len(resC) :
         \E j \in 1..Len(users_table) :
           /\ resC[k].user_name = users_table[j].name
           /\ resC[k].total_content_length = LengthOf(users_table[j])
    /\ NonIncreasing([k \in 1..Len(resC) |-> resC[k].total_content_length])
    /\ \A j \in 1..Len(users_table) :
         (PostsOf(users_table[j]) # {} /\ \A k \in 1..Len(resC) : resC[k].user_name # users_table[j].name)
           => \A k \in 1..Len(resC) : resC[k].total_content_length >= LengthOf(users_table[j])

\* C8 as stated: Query B returns exactly one row, at least as long as every
\* post of the posts table, named after the user of that post.
C8_LongestPost ==
  Ran("query2") =>
    /\ Len(resB) = 1
    /\ \A i \in 1..Len(posts_table) : resB[1].body_length >= Len(posts_table[i].body)
    /\ \E i \in 1..Len(posts_table), j \in 1..Len(users_table) :
         /\ Matches(posts_table[i], users_table[j])
         /\ resB[1].name = users_table[j].name
         /\ resB[1].body_length = Len(posts_table[i].body)

\* C8 amended: Query B returns one row when some post has a user and none
\* otherwise; the row is a (post, user) pair with equal ids and is at least as
\* long as every post that has a user.
C8_LongestJoinedPost ==
  Ran("query2") =>
    /\ Len(resB) <= 1
    /\ Len(resB) = 1 <=> \E i \in 1..Len(posts_table) : ~Orphan(posts_table[i])
    /\ Len(resB) = 1 =>
         /\ \A i \in 1..Len(posts_table) : ~Orphan(posts_table[i]) => resB[1].body_length >= Len(posts_table[i].body)
         /\ \E i \in 1..Len(posts_table), j \in 1..Len(users_table) :
              /\ Matches(posts_table[i], users_table[j])
              /\ resB[1].name = users_table[j].name
              /\ resB[1].body_length = Len(posts_table[i].body)

C8_Witness ==
  /\ Ran("query2") /\ Len(resB) = 1
  /\ \E i \in 1..Len(posts_table) : Orphan(posts_table[i]) /\ Len(posts_table[i].body) > resB[1].body_length
  /\ \E i \in 1..Len(posts_table) :
       ~Orphan(posts_table[i]) /\ Len(posts_table[i].body) = resB[1].body_length

\* C9: a run's log of completed stages is an initial part of an allowed
\* order of the stages, and the stage in progress is the next one of it.
IsPrefix(a, b) == Len(a) <= Len(b) /\ a = SubSeq(b, 1, Len(a))

StageOf(p) == IF p \in {"insert_posts", "insert_users"} THEN "store" ELSE p

InOrder(orders) ==
  /\ \E o \in orders : IsPrefix(log, o)
  /\ pc # "idle" =>
       \E o \in orders :
         /\ Len(log) < Len(o)
         /\ IsPrefix(log, o)
         /\ o[Len(log) + 1] = StageOf(pc)

\* "validate both" leaves the order of the two validations open
UsersFirst ==
  { <<"fetch_users", "fetch_posts">> \o v \o <<"store", "query1", "query2", "query3">> :
      v \in { <<"validate_posts", "validate_users">>, <<"validate_users", "validate_posts">> } }

PostsFirst ==
  { <<"fetch_posts", "fetch_users">> \o v \o <<"store", "query1", "query2", "query3">> :
      v \in { <<"validate_posts", "validate_users">>, <<"validate_users", "validate_posts">> } }

LoadedBeforeQueries ==
  (pc \in {"query1", "query2", "query3"} \/ Ran("query1") \/ Ran("query2") \/ Ran("query3"))
    => /\ Ran("store")
       /\ db.posts.exists /\ db.users.exists
       /\ posts_table = StoredPosts /\ users_table = StoredUsers

\* C9 as stated: User data is fetched first, then Post data, then both are
\* validated, both tables loaded, and Query A, B, C run, each stage after the
\* one before has completed and no query before both tables are loaded.
C9_StageOrder == InOrder(UsersFirst) /\ LoadedBeforeQueries

\* C9 amended: the same with Post data fetched first and User data second.
C9_StageOrderPostsFirst == InOrder(PostsFirst) /\ LoadedBeforeQueries

C9_Witness ==
  /\ Completed /\ err = "none"
  /\ Len(posts_table) > 0 /\ Len(users_table) > 0 /\ Len(resC) > 0

\* C10: each post is counted at most once by Query A: the post_count values
\* add up to the number of posts whose userId is the id of some user.
C10_CountedOnce ==
  Ran("query1") =>
    SumOf([k \in 1..Len(resA) |-> resA[k].post_count])
      = Cardinality({i \in 1..Len(posts_table) : ~Orphan(posts_table[i])})
====
